---- MODULE Spec2Model ----
(***************************************************************************)
(* Model of src/index.py: the batch driver                                 *)
(* process_all_profiles_in_parent_dir and the builder                      *)
(* draw_from_csv_coordinates, together with the parts of the file system   *)
(* and of the CAD kernel (document, sketch geometry, sketch constraints)   *)
(* that the two functions read and write.                                  *)
(*                                                                         *)
(* Text is modelled as sequences of one-character strings, so that         *)
(* str.split, str.replace, str.lower, "in" and endswith are computed.      *)
(* Floating point values are modelled as integers (exact arithmetic) plus  *)
(* NaN.                                                                    *)
(***************************************************************************)
EXTENDS Integers, Sequences, FiniteSets, TLC

(***************************************************************************)
(* Bounds of the model.                                                    *)
(***************************************************************************)
\* number of directory entries listed by one batch run
MaxFiles == 2
\* largest scale factor typed at the interactive prompt
MaxScale == 2
\* number of direct calls of draw_from_csv_coordinates on one container
MaxCalls == 2

(***************************************************************************)
(* Text helpers (Python str methods).                                      *)
(***************************************************************************)
IsSpace(c) == c \in {" ", "\n", "\t"}

Digits == <<"0", "1", "2", "3", "4", "5", "6", "7", "8", "9">>

IsDigit(c) == \E d \in 1..10 : Digits[d] = c

DigitVal(c) == (CHOOSE d \in 1..10 : Digits[d] = c) - 1

\* s[i:] with a 1-based first index
Drop(s, n) == IF n >= Len(s) THEN <<>> ELSE SubSeq(s, n + 1, Len(s))

\* str.split() without arguments: runs of whitespace separate the tokens and
\* no empty token is produced.
RECURSIVE SplitFrom(_, _, _)
SplitFrom(s, i, cur) ==
    IF i > Len(s)
    THEN IF cur = <<>> THEN <<>> ELSE <<cur>>
    ELSE IF IsSpace(s[i])
         THEN IF cur = <<>>
              THEN SplitFrom(s, i + 1, <<>>)
              ELSE <<cur>> \o SplitFrom(s, i + 1, <<>>)
         ELSE SplitFrom(s, i + 1, Append(cur, s[i]))

Split(line) == SplitFrom(line, 1, <<>>)

\* needle in hay
Contains(hay, needle) ==
    \E i \in 1..(Len(hay) - Len(needle) + 1) :
        SubSeq(hay, i, i + Len(needle) - 1) = needle

\* s.endswith(suffix)
EndsWith(s, suffix) ==
    /\ Len(s) >= Len(suffix)
    /\ SubSeq(s, Len(s) - Len(suffix) + 1, Len(s)) = suffix

\* s.replace(a, b) for one-character a and b
Replace(s, a, b) == [i \in 1..Len(s) |-> IF s[i] = a THEN b ELSE s[i]]

LowerChar(c) ==
    CASE c = "A" -> "a"
      [] c = "B" -> "b"
      [] c = "C" -> "c"
      [] c = "N" -> "n"
      [] c = "Y" -> "y"
      [] OTHER -> c

\* s.lower()
Lower(s) == [i \in 1..Len(s) |-> LowerChar(s[i])]

(***************************************************************************)
(* Cells of a data frame column: a text token, None, a float or NaN.       *)
(***************************************************************************)
Str(t) == [kind |-> "str", tok |-> t, v |-> 0]

None == [kind |-> "none", tok |-> <<>>, v |-> 0]

Flt(n) == [kind |-> "float", tok |-> <<>>, v |-> n]

NaN == [kind |-> "nan", tok |-> <<>>, v |-> 0]

IsNum(c) == c.kind = "float"

\* the text is an optionally signed run of digits
Numeric(t) ==
    LET body == IF t # <<>> /\ t[1] = "-" THEN Drop(t, 1) ELSE t
    IN  /\ body # <<>>
        /\ \A i \in 1..Len(body) : IsDigit(body[i])

RECURSIVE DigitsVal(_)
DigitsVal(t) ==
    IF t = <<>> THEN 0
    ELSE 10 * DigitsVal(SubSeq(t, 1, Len(t) - 1)) + DigitVal(t[Len(t)])

\* float(text) for numeric text
ParseFloat(t) ==
    IF t[1] = "-" THEN 0 - DigitsVal(Drop(t, 1)) ELSE DigitsVal(t)

\* Series.astype(float) on one cell; Coercible says whether it raises
Coercible(c) == c.kind = "str" => Numeric(c.tok)

ToFloat(c) ==
    CASE c.kind = "str"  -> Flt(ParseFloat(c.tok))
      [] c.kind = "none" -> NaN
      [] OTHER           -> c

\* float * float
Mul(c, s) == IF IsNum(c) THEN Flt(c.v * s) ELSE c

(***************************************************************************)
(* pandas.DataFrame(rows, columns=["x", "y"]) on a list of token lists.    *)
(* The frame is as wide as the longest row and shorter rows are padded     *)
(* with None; a width other than the two names passed raises ValueError.   *)
(* An empty list of rows gives an empty frame with the two columns.        *)
(***************************************************************************)
RECURSIVE MaxWidth(_)
MaxWidth(rows) ==
    IF rows = <<>> THEN 0
    ELSE LET w == MaxWidth(Tail(rows))
         IN  IF Len(Head(rows)) > w THEN Len(Head(rows)) ELSE w

DataFrameRaises(rows) == rows # <<>> /\ MaxWidth(rows) # 2

CellAt(row, j) == IF Len(row) >= j THEN Str(row[j]) ELSE None

DataFrame(rows) ==
    [isFrame |-> TRUE, cols |-> {"x", "y"},
     x |-> [i \in 1..Len(rows) |-> CellAt(rows[i], 1)],
     y |-> [i \in 1..Len(rows) |-> CellAt(rows[i], 2)],
     xfloat |-> FALSE, yfloat |-> FALSE]

\* a frame whose columns already hold floats (a caller's own container)
FloatFrame(pts) ==
    [isFrame |-> TRUE, cols |-> {"x", "y"},
     x |-> [i \in 1..Len(pts) |-> Flt(pts[i][1])],
     y |-> [i \in 1..Len(pts) |-> Flt(pts[i][2])],
     xfloat |-> TRUE, yfloat |-> TRUE]

\* Series.count(): the number of cells that are neither None nor NaN
RECURSIVE Count(_)
Count(col) ==
    IF col = <<>> THEN 0
    ELSE (IF Head(col).kind \in {"none", "nan"} THEN 0 ELSE 1) + Count(Tail(col))

\* Series.min() and Series.max() skip NaN
NumVals(col) == {col[i].v : i \in {j \in 1..Len(col) : IsNum(col[j])}}

SeriesMin(col) == CHOOSE m \in NumVals(col) : \A n \in NumVals(col) : m <= n

SeriesMax(col) == CHOOSE m \in NumVals(col) : \A n \in NumVals(col) : m >= n

(***************************************************************************)
(* Input files of the profiles directory, as lists of lines (readlines     *)
(* keeps the line ends).                                                   *)
(***************************************************************************)
TXT == <<".", "t", "x", "t">>

NACA == <<"N", "A", "C", "A">>

Line20 == <<"2", " ", "0", "\n">>

Line11 == <<"1", " ", "1", "\n">>

Line00 == <<"0", " ", "0", "\n">>

Line1m1 == <<"1", " ", " ", "-", "1", "\n">>

LineHeader == <<"N", "A", "C", "A", " ", "1", "2", "\n">>

LineBlank == <<"\n">>

LineOne == <<"1", "\n">>

LineThree == <<"1", " ", "1", " ", "0", "\n">>

LineText == <<"1", " ", "y", "\n">>

File(nm, ls) == [file |-> nm, lines |-> ls]

\* header, four rows; the name has a capital
FileHeader == File(<<"N", "1">> \o TXT, <<LineHeader, Line20, Line11, Line00, Line1m1>>)

\* three rows, no header; the name has a hyphen
FilePlain == File(<<"a", "-", "b">> \o TXT, <<Line20, Line11, Line00>>)

\* well-formed rows mixed with a one-token line and a blank line
FileShort == File(<<"c">> \o TXT, <<Line20, LineOne, Line00, LineBlank>>)

\* a three-token line among well-formed rows
FileLong == File(<<"d">> \o TXT, <<Line20, LineThree, Line00>>)

\* two rows only
FileTwo == File(<<"e">> \o TXT, <<Line20, Line00>>)

\* a token that is no number
FileText == File(<<"f">> \o TXT, <<Line20, LineText, Line00>>)

\* not a .txt entry: the csv a former run left behind
FileCsv == File(<<"a", "-", "b", ".", "c", "s", "v">>, <<Line20>>)

\* an empty file
FileEmpty == File(<<"g">> \o TXT, <<>>)

Catalogue ==
    {FileHeader, FilePlain, FileShort, FileLong, FileTwo, FileText, FileCsv, FileEmpty}

\* os.listdir: distinct entries in arbitrary order
RECURSIVE Listings(_)
Listings(n) ==
    IF n = 0 THEN {<<>>}
    ELSE LET shorter == Listings(n - 1)
         IN  shorter \cup
             {Append(l, f) : l \in {k \in shorter : Len(k) = n - 1}, f \in Catalogue}

DistinctEntries(l) == \A i, j \in 1..Len(l) : i # j => l[i].file # l[j].file

Directories == {l \in Listings(MaxFiles) : l # <<>> /\ DistinctEntries(l)}

(***************************************************************************)
(* Arguments of a direct call of draw_from_csv_coordinates.                *)
(***************************************************************************)
NoKwargs == [has_scale |-> FALSE, scale |-> None, extrude |-> <<>>]

KwScale(s) == [has_scale |-> TRUE, scale |-> Flt(s), extrude |-> <<>>]

KwScaleNone == [has_scale |-> TRUE, scale |-> None, extrude |-> <<>>]

KwExtrude(l) == [has_scale |-> FALSE, scale |-> None, extrude |-> <<l>>]

KwargsChoices == {NoKwargs, KwScale(2), KwScaleNone, KwExtrude(50)}

NotAFrame ==
    [isFrame |-> FALSE, cols |-> {}, x |-> <<>>, y |-> <<>>,
     xfloat |-> FALSE, yfloat |-> FALSE]

Containers ==
    { FloatFrame(<<<<2, 0>>, <<1, 1>>, <<0, 0>>>>),
      DataFrame(<<Split(Line20), Split(Line11), Split(Line00), Split(Line1m1)>>),
      DataFrame(<<Split(Line20), Split(LineText)>>),
      [FloatFrame(<<<<2, 0>>, <<1, 1>>>>) EXCEPT !.cols = {"x"}],
      NotAFrame,
      FloatFrame(<<>>),
      FloatFrame(<<<<2, 0>>>>),
      FloatFrame(<<<<2, 0>>, <<0, 0>>>>),
      FloatFrame(<<<<1, 0>>, <<1, 1>>, <<1, 2>>>>),
      FloatFrame(<<<<2, 0>>, <<1, 1>>, <<2, 0>>>>) }

Names == {<<"N", " ", "1">>, <<"a", "-", "b">>, <<"c">>}

(***************************************************************************)
(* State.                                                                  *)
(***************************************************************************)
VARIABLES
    mode,            \* "batch": the script's main; "direct": a caller of the builder
    profiles,        \* os.listdir(cwd + "/profiles") with each entry's lines
    cad,             \* the files of cwd/cad: file stem -> saved document
    cadDir,          \* whether cwd/cad exists
    csv,             \* the csv files written into profiles/
    pc,              \* position of the single thread of control
    err,             \* the exception that ended the run ("" if none)
    file_idx,        \* position of the for loop over the listing
    calls,           \* direct calls made so far
    name,            \* draw_from_csv_coordinates: argument name
    coordinates,     \* draw_from_csv_coordinates: argument coordinates (mutated in place)
    kwargs,          \* draw_from_csv_coordinates: keyword arguments
    coords0,         \* the container as it was when the current call began
    call_start,      \* Len(ops) when the current call began
    scale_factor,    \* local scale_factor
    body_name,       \* local body_name
    number_of_coord, \* local number_of_coord
    poles,           \* local poles
    pt,              \* position of the for loop over the rows
    domain,          \* locals x_front, x_back, y_above, y_below
    pad_name,        \* local pad_name
    document,        \* whether the local document is bound to a kernel document
    objects,         \* the objects of that document
    Geometry,        \* sketch.Geometry
    Constraints,     \* the sketch's constraints
    ops              \* kernel, file and console operations so far, in order

envv == <<mode, profiles>>

fsv == <<cad, cadDir, csv>>

ctlv == <<file_idx, calls>>

callv == <<name, coordinates, kwargs, coords0, call_start>>

localv == <<scale_factor, body_name, number_of_coord, poles, pt, domain, pad_name>>

kernelv == <<document, objects, Geometry, Constraints>>

vars == <<envv, fsv, pc, err, ctlv, callv, localv, kernelv, ops>>

\* a file of cwd/cad that an earlier run of the program left behind
OldDocument == [objects |-> <<>>, geometry |-> <<>>, constraints |-> <<>>]

NoDomain == [x_front |-> 0, x_back |-> 0, y_above |-> 0, y_below |-> 0]

\* file[:-4]
Stem(file) == SubSeq(file, 1, Len(file) - 4)

Files(stems) == [s \in stems |-> OldDocument]

Init ==
    /\ mode \in {"batch", "direct"}
    /\ IF mode = "batch"
       THEN /\ profiles \in Directories
            /\ name = <<>>
            /\ coordinates = NotAFrame
            /\ kwargs = NoKwargs
            /\ \E pre \in BOOLEAN :
                 /\ cadDir = pre
                 /\ cad = IF pre THEN Files({Stem(profiles[i].file) : i \in 1..Len(profiles)})
                                 ELSE Files({})
       ELSE /\ profiles = <<>>
            /\ name \in Names
            /\ coordinates \in Containers
            /\ kwargs \in KwargsChoices
            /\ \E pre \in BOOLEAN :
                 /\ cadDir = pre
                 /\ cad = IF pre THEN Files({name}) ELSE Files({})
    /\ csv = {}
    /\ pc = "main"
    /\ err = ""
    /\ file_idx = 1
    /\ calls = 0
    /\ coords0 = coordinates
    /\ call_start = 0
    /\ scale_factor = Flt(1)
    /\ body_name = <<>>
    /\ number_of_coord = 0
    /\ poles = <<>>
    /\ pt = 1
    /\ domain = NoDomain
    /\ pad_name = <<>>
    /\ document = FALSE
    /\ objects = <<>>
    /\ Geometry = <<>>
    /\ Constraints = <<>>
    /\ ops = <<>>

\* an uncaught exception: the interpreter prints the traceback and exits
Raise(e) == pc' = "crashed" /\ err' = e

Goto(l) == pc' = l /\ err' = err

\* entry of draw_from_csv_coordinates(nm, df, **kw)
Call(nm, df, kw) ==
    /\ name' = nm
    /\ coordinates' = df
    /\ kwargs' = kw
    /\ coords0' = df
    /\ call_start' = Len(ops)
    /\ scale_factor' = Flt(1)
    /\ body_name' = <<>>
    /\ number_of_coord' = 0
    /\ poles' = <<>>
    /\ pt' = 1
    /\ domain' = NoDomain
    /\ pad_name' = <<>>
    /\ Goto("check_frame")

(***************************************************************************)
(* process_all_profiles_in_parent_dir                                      *)
(***************************************************************************)
\* __main__ calls the batch driver
Main ==
    /\ pc = "main"
    /\ mode = "batch"
    /\ Goto("for_file")
    /\ UNCHANGED <<envv, fsv, ctlv, callv, localv, kernelv, ops>>

\* for file in os.listdir(...): if file.endswith(".txt")
ForFile ==
    /\ pc = "for_file"
    /\ IF file_idx > Len(profiles)
       THEN Goto("exit") /\ UNCHANGED file_idx
       ELSE IF EndsWith(profiles[file_idx].file, TXT)
            THEN Goto("read") /\ UNCHANGED file_idx
            ELSE Goto("for_file") /\ file_idx' = file_idx + 1
    /\ UNCHANGED <<envv, fsv, calls, callv, localv, kernelv, ops>>

\* lines after the header test
DataLines(lines) == IF Contains(lines[1], NACA) THEN Tail(lines) ELSE lines

Rows(lines) == [i \in 1..Len(lines) |-> Split(lines[i])]

\* readlines, the header test and the DataFrame constructor
ReadFile ==
    /\ pc = "read"
    /\ LET lines == profiles[file_idx].lines
       IN  IF lines = <<>>
           THEN Raise("IndexError") /\ UNCHANGED coordinates
           ELSE IF DataFrameRaises(Rows(DataLines(lines)))
                THEN Raise("ValueError") /\ UNCHANGED coordinates
                ELSE /\ coordinates' = DataFrame(Rows(DataLines(lines)))
                     /\ Goto("to_csv")
    /\ UNCHANGED <<envv, fsv, ctlv, name, kwargs, coords0, call_start, localv, kernelv, ops>>

\* df.to_csv and the call of draw_from_csv_coordinates(filename, df)
SaveCsvAndDraw ==
    /\ pc = "to_csv"
    /\ LET filename == Stem(profiles[file_idx].file)
       IN  /\ csv' = csv \cup {filename}
           /\ Call(filename, coordinates, NoKwargs)
    /\ UNCHANGED <<envv, cad, cadDir, ctlv, kernelv, ops>>

\* a caller other than the script calls the builder, possibly again with the
\* same name and the same container
Caller ==
    /\ pc = "main"
    /\ mode = "direct"
    /\ \/ /\ calls < MaxCalls
          /\ calls' = calls + 1
          /\ Call(name, coordinates, kwargs)
       \/ /\ calls > 0
          /\ Goto("exit")
          /\ UNCHANGED <<calls, callv, localv>>
    /\ UNCHANGED <<envv, fsv, file_idx, kernelv, ops>>

\* return from draw_from_csv_coordinates
Return ==
    /\ pc = "return"
    /\ IF mode = "batch"
       THEN Goto("for_file") /\ file_idx' = file_idx + 1
       ELSE Goto("main") /\ UNCHANGED file_idx
    /\ UNCHANGED <<envv, fsv, calls, callv, localv, kernelv, ops>>

(***************************************************************************)
(* Requests to the kernel and to the file system, as recorded in ops.      *)
(***************************************************************************)
SysOp(o, stem) == [op |-> o, stem |-> stem, geo |-> <<>>, con |-> <<>>]

GeoOp(g) == [op |-> "addGeometry", stem |-> <<>>, geo |-> <<g>>, con |-> <<>>]

ConOp(c) == [op |-> "addConstraint", stem |-> <<>>, geo |-> <<>>, con |-> <<c>>]

Recompute == SysOp("recompute", <<>>)

\* geometry
Point(v) == [type |-> "Point", pts |-> <<v>>]

BSplineCurve(ps) == [type |-> "BSplineCurve", pts |-> ps]

LineSegment(a, b) == [type |-> "LineSegment", pts |-> <<a, b>>]

\* Base.Vector(x, y) of two floats
V(x, y) == <<Flt(x), Flt(y)>>

\* Sketcher.Constraint(kind, ...): the (geometry id, point position) pairs it
\* names and its value, if it has one.  Position 0 is the whole edge.
Constraint(k, refs, val) == [kind |-> k, refs |-> refs, val |-> val]

\* App.Units.Quantity(f"{value} mm") parses numbers only
QuantityRaises(c) == ~IsNum(c)

(***************************************************************************)
(* The two helpers of index.py.                                            *)
(***************************************************************************)
\* variant: the length of the list taken for the last id
LlIdOffByOne(geometry) == Len(geometry)

\* __ll_id(sketch), on the geometry list of the sketch
LlId(geometry) == Len(geometry) - 1

\* the constraint __coincident(sketch, f_line_id, f_edge_id, s_line_id, s_edge_id) adds
Coincident(f_line_id, f_edge_id, s_line_id, s_edge_id) ==
    Constraint("Coincident", <<<<f_line_id, f_edge_id>>, <<s_line_id, s_edge_id>>>>, <<>>)

(***************************************************************************)
(* draw_from_csv_coordinates: validation and scaling.                      *)
(***************************************************************************)
\* isinstance(coordinates, pd.DataFrame)
CheckFrame ==
    /\ pc = "check_frame"
    /\ IF coordinates.isFrame THEN Goto("check_columns") ELSE Raise("TypeError")
    /\ UNCHANGED <<envv, fsv, ctlv, callv, localv, kernelv, ops>>

\* variant: the columns are not tested
CheckColumnsSkipped ==
    /\ pc = "check_columns"
    /\ Goto("astype")
    /\ UNCHANGED <<envv, fsv, ctlv, callv, localv, kernelv, ops>>

\* "x" and "y" in coordinates.columns
CheckColumns ==
    /\ pc = "check_columns"
    /\ IF {"x", "y"} \subseteq coordinates.cols THEN Goto("astype") ELSE Raise("ValueError")
    /\ UNCHANGED <<envv, fsv, ctlv, callv, localv, kernelv, ops>>

ColumnCoercible(col) == \A i \in 1..Len(col) : Coercible(col[i])

ColumnToFloat(col) == [i \in 1..Len(col) |-> ToFloat(col[i])]

\* the two astype(float) conversions, x first, each assigned back in place
AsType ==
    /\ pc = "astype"
    /\ LET x1 == IF coordinates.xfloat THEN coordinates.x ELSE ColumnToFloat(coordinates.x)
           y1 == IF coordinates.yfloat THEN coordinates.y ELSE ColumnToFloat(coordinates.y)
       IN  IF ~coordinates.xfloat /\ ~ColumnCoercible(coordinates.x)
           THEN Raise("ValueError") /\ UNCHANGED coordinates
           ELSE IF ~coordinates.yfloat /\ ~ColumnCoercible(coordinates.y)
                THEN /\ Raise("ValueError")
                     /\ coordinates' = [coordinates EXCEPT !.x = x1, !.xfloat = TRUE]
                ELSE /\ Goto("scale")
                     /\ coordinates' = [coordinates EXCEPT !.x = x1, !.xfloat = TRUE,
                                                           !.y = y1, !.yfloat = TRUE]
    /\ UNCHANGED <<envv, fsv, ctlv, name, kwargs, coords0, call_start, localv, kernelv, ops>>

\* what the user may type at the two prompts
Answers == {<<"y">>, <<"Y">>, <<"n">>}

ScaleTexts == {<<Digits[s + 1]>> : s \in 2..MaxScale} \cup {<<"y">>}

\* kwargs.get("scale_factor")
KwargsGetScale(kw) == IF kw.has_scale THEN kw.scale ELSE None

\* coordinates[c] * scale_factor
Scaled(col, s) == [i \in 1..Len(col) |-> Mul(col[i], s)]

\* what input() returned, as the call used it
Input(text) == [op |-> "input", stem |-> text, geo |-> <<>>, con |-> <<>>]

\* the scale_factor default, the two prompts and the scaling in place
ScalePrompt ==
    /\ pc = "scale"
    /\ \E answer \in Answers :
         IF Lower(answer) = <<"y">> /\ KwargsGetScale(kwargs).kind = "none"
         THEN \E text \in ScaleTexts :
                /\ ops' = ops \o <<Input(Lower(answer)), Input(text)>>
                /\ IF Numeric(text)
                   THEN /\ scale_factor' = Flt(ParseFloat(text))
                        /\ coordinates' =
                             [coordinates EXCEPT
                                !.x = Scaled(coordinates.x, ParseFloat(text)),
                                !.y = Scaled(coordinates.y, ParseFloat(text))]
                        /\ Goto("mkdir")
                   ELSE /\ Raise("ValueError")
                        /\ scale_factor' = IF kwargs.has_scale THEN kwargs.scale ELSE Flt(1)
                        /\ UNCHANGED coordinates
         ELSE /\ ops' = Append(ops, Input(Lower(answer)))
              /\ scale_factor' = IF kwargs.has_scale THEN kwargs.scale ELSE Flt(1)
              /\ UNCHANGED coordinates
              /\ Goto("mkdir")
    /\ UNCHANGED <<envv, fsv, ctlv, name, kwargs, coords0, call_start,
                   body_name, number_of_coord, poles, pt, domain, pad_name, kernelv>>

(***************************************************************************)
(* draw_from_csv_coordinates: output folder, document, body and sketch.    *)
(***************************************************************************)
\* os.mkdir(cwd/cad) if the folder is missing
MakeCadDir ==
    /\ pc = "mkdir"
    /\ cadDir' = TRUE
    /\ ops' = IF cadDir THEN ops ELSE Append(ops, SysOp("mkdir", <<>>))
    /\ Goto("new_document")
    /\ UNCHANGED <<envv, cad, csv, ctlv, callv, localv, kernelv>>

\* document = App.newDocument()
NewDocument ==
    /\ pc = "new_document"
    /\ document' = TRUE
    /\ objects' = <<>>
    /\ Geometry' = <<>>
    /\ Constraints' = <<>>
    /\ ops' = Append(ops, SysOp("newDocument", <<>>))
    /\ Goto("remove")
    /\ UNCHANGED <<envv, fsv, ctlv, callv, localv>>

Without(files, stem) == [s \in (DOMAIN files) \ {stem} |-> files[s]]

\* variant: the existing file is left in place
RemoveExistingSkipped ==
    /\ pc = "remove"
    /\ Goto("add_body")
    /\ UNCHANGED <<envv, fsv, ctlv, callv, localv, kernelv, ops>>

\* os.remove(cwd/cad/{name}.FCStd) if that file exists
RemoveExisting ==
    /\ pc = "remove"
    /\ IF name \in DOMAIN cad
       THEN /\ cad' = Without(cad, name)
            /\ ops' = Append(ops, SysOp("remove", name))
       ELSE UNCHANGED <<cad, ops>>
    /\ Goto("add_body")
    /\ UNCHANGED <<envv, cadDir, csv, ctlv, callv, localv, kernelv>>

\* variant: the case is left as it is
BodyNameKeepingCase(nm) == Replace(Replace(nm, " ", "_"), "-", "_")

\* name.replace(" ", "_").replace("-", "_").lower()
BodyName(nm) == Lower(Replace(Replace(nm, " ", "_"), "-", "_"))

Object(type, label, length) == [type |-> type, label |-> label, length |-> length]

\* the body, named body_name
AddBody ==
    /\ pc = "add_body"
    /\ body_name' = BodyName(name)
    /\ objects' = Append(objects, Object("PartDesign::Body", BodyName(name), <<>>))
    /\ ops' = ops \o <<SysOp("addObject", BodyName(name)), Recompute>>
    /\ Goto("add_sketch")
    /\ UNCHANGED <<envv, fsv, ctlv, callv, scale_factor, number_of_coord, poles, pt,
                   domain, pad_name, document, Geometry, Constraints>>

SketchName == <<"S", "k", "e", "t", "c", "h">>

\* the sketch on the YZ plane, number_of_coord and the empty list of poles
AddSketch ==
    /\ pc = "add_sketch"
    /\ objects' = Append(objects, Object("Sketcher::SketchObject", SketchName, <<>>))
    /\ ops' = ops \o <<SysOp("newObject", SketchName), Recompute>>
    /\ number_of_coord' = Count(coordinates.x)
    /\ poles' = <<>>
    /\ pt' = 1
    /\ Goto("point")
    /\ UNCHANGED <<envv, fsv, ctlv, callv, scale_factor, body_name, domain, pad_name,
                   document, Geometry, Constraints>>

(***************************************************************************)
(* The sketch as the kernel keeps it.  addGeometry appends to the geometry *)
(* list; addConstraint raises IndexError for a constraint that names a     *)
(* geometry id the sketch does not have (-1 and -2 are the axes).          *)
(***************************************************************************)
KnownId(g, geometry) == g \in {-1, -2} \/ (0 <= g /\ g < Len(geometry))

Accepted(c, geometry) == \A i \in 1..Len(c.refs) : KnownId(c.refs[i][1], geometry)

Sketch(G, C, O, ok) == [G |-> G, C |-> C, O |-> O, ok |-> ok]

Request(st, r) ==
    CASE r.op = "addGeometry" ->
           Sketch(Append(st.G, r.geo[1]), st.C, Append(st.O, r), TRUE)
      [] r.op = "addConstraint" ->
           IF Accepted(r.con[1], st.G)
           THEN Sketch(st.G, Append(st.C, r.con[1]), Append(st.O, r), TRUE)
           ELSE Sketch(st.G, st.C, Append(st.O, r), FALSE)
      [] OTHER -> Sketch(st.G, st.C, Append(st.O, r), TRUE)

\* the requests of one block of statements, in order, up to the first that raises
RECURSIVE Requests(_, _)
Requests(st, rs) ==
    IF rs = <<>> \/ ~st.ok THEN st ELSE Requests(Request(st, Head(rs)), Tail(rs))

\* run a block of requests on the sketch and continue at l
Block(rs, l) ==
    LET st == Requests(Sketch(Geometry, Constraints, ops, TRUE), rs)
    IN  /\ Geometry' = st.G
        /\ Constraints' = st.C
        /\ ops' = st.O
        /\ IF st.ok THEN Goto(l) ELSE Raise("IndexError")

(***************************************************************************)
(* draw_from_csv_coordinates: the points, the curve and the closing line.  *)
(***************************************************************************)
Row(i) == <<coordinates.x[i], coordinates.y[i]>>

\* for x, y in zip(...): sketch.addGeometry(Part.Point(...))
AddPoint ==
    /\ pc = "point"
    /\ IF pt > Len(coordinates.x)
       THEN Goto("bspline") /\ UNCHANGED <<Geometry, Constraints, ops>>
       ELSE Block(<<GeoOp(Point(Row(pt))), Recompute>>, "dist_x")
    /\ UNCHANGED <<envv, fsv, ctlv, callv, localv, document, objects>>

\* the DistanceX constraint of the point just added
DistanceXOf(geometry, x) ==
    Constraint("DistanceX", <<<<-2, 1>>, <<LlId(geometry), 1>>>>, <<x>>)

\* the DistanceY constraint of the point just added
DistanceYOf(geometry, y) ==
    Constraint("DistanceY", <<<<LlId(geometry), 1>>, <<-1, 1>>>>, <<y>>)

ConstrainX ==
    /\ pc = "dist_x"
    /\ IF QuantityRaises(Row(pt)[1])
       THEN Raise("ValueError") /\ UNCHANGED <<Geometry, Constraints, ops>>
       ELSE Block(<<ConOp(DistanceXOf(Geometry, Row(pt)[1].v)), Recompute>>, "dist_y")
    /\ UNCHANGED <<envv, fsv, ctlv, callv, localv, document, objects>>

\* the DistanceY constraint, the recomputes and poles.append
ConstrainY ==
    /\ pc = "dist_y"
    /\ IF QuantityRaises(Row(pt)[2])
       THEN /\ Raise("ValueError")
            /\ UNCHANGED <<Geometry, Constraints, ops, poles, pt>>
       ELSE /\ Block(<<ConOp(DistanceYOf(Geometry, Row(pt)[2].v)), Recompute, Recompute>>,
                     "point")
            /\ IF Accepted(DistanceYOf(Geometry, Row(pt)[2].v), Geometry)
               THEN poles' = Append(poles, Row(pt)) /\ pt' = pt + 1
               ELSE UNCHANGED <<poles, pt>>
    /\ UNCHANGED <<envv, fsv, ctlv, callv, scale_factor, body_name, number_of_coord,
                   domain, pad_name, document, objects>>

\* b_spline.buildFromPoles(poles) needs two poles at least
DrawBSpline ==
    /\ pc = "bspline"
    /\ IF Len(poles) < 2
       THEN Raise("OCCError") /\ UNCHANGED <<Geometry, Constraints, ops>>
       ELSE Block(<<GeoOp(BSplineCurve(poles)), Recompute>>, "closing_line")
    /\ UNCHANGED <<envv, fsv, ctlv, callv, localv, document, objects>>

\* Part.LineSegment(a, b) raises when the two points are equal
SegmentRaises(a, b) == a = b

\* closing_line = Part.LineSegment(poles[0], poles[-1])
DrawClosingLine ==
    /\ pc = "closing_line"
    /\ IF SegmentRaises(poles[1], poles[Len(poles)])
       THEN Raise("OCCError") /\ UNCHANGED <<Geometry, Constraints, ops>>
       ELSE Block(<<GeoOp(LineSegment(poles[1], poles[Len(poles)])), Recompute>>,
                  "closing_constraints")
    /\ UNCHANGED <<envv, fsv, ctlv, callv, localv, document, objects>>

\* variant: the two ends of the closing line exchanged
ClosingConstraintsSwapped(geometry, n) ==
    <<Coincident(LlId(geometry), 1, n - 1, 1), Coincident(LlId(geometry), 2, 0, 1)>>

\* the two constraints of the closing line
ClosingConstraints(geometry, n) ==
    <<Coincident(LlId(geometry), 1, 0, 1), Coincident(LlId(geometry), 2, n - 1, 1)>>

ConstrainClosingLine ==
    /\ pc = "closing_constraints"
    /\ LET cs == ClosingConstraints(Geometry, number_of_coord)
       IN  Block(<<ConOp(cs[1]), ConOp(cs[2]), Recompute>>, "bounds")
    /\ UNCHANGED <<envv, fsv, ctlv, callv, localv, document, objects>>

(***************************************************************************)
(* draw_from_csv_coordinates: the domain around the profile.               *)
(***************************************************************************)
\* the multipliers of the profile length
FrontLengths == 3

BackLengths == 7

AboveLengths == 3

BelowLengths == 3

\* variant: the back margin as long as the front margin
DomainOfEvenMargins(coords) ==
    LET min_x == SeriesMin(coords.x)
        max_x == SeriesMax(coords.x)
        min_y == SeriesMin(coords.y)
        max_y == SeriesMax(coords.y)
        length == max_x - min_x
    IN  [x_front |-> min_x - (length * FrontLengths),
         x_back  |-> max_x + (length * FrontLengths),
         y_above |-> max_y + (length * AboveLengths),
         y_below |-> min_y - (length * BelowLengths)]

\* min/max of the two columns, the length and the four extents
DomainOf(coords) ==
    LET min_x == SeriesMin(coords.x)
        max_x == SeriesMax(coords.x)
        min_y == SeriesMin(coords.y)
        max_y == SeriesMax(coords.y)
        length == max_x - min_x
    IN  [x_front |-> min_x - (length * FrontLengths),
         x_back  |-> max_x + (length * BackLengths),
         y_above |-> max_y + (length * AboveLengths),
         y_below |-> min_y - (length * BelowLengths)]

ComputeDomain ==
    /\ pc = "bounds"
    /\ domain' = DomainOf(coordinates)
    /\ Goto("top")
    /\ UNCHANGED <<envv, fsv, ctlv, callv, scale_factor, body_name, number_of_coord,
                   poles, pt, pad_name, kernelv, ops>>

Horizontal(id) == Constraint("Horizontal", <<<<id, 0>>>>, <<>>)

Vertical(id) == Constraint("Vertical", <<<<id, 0>>>>, <<>>)

\* the four lines of the domain
TopLine(d) == LineSegment(V(d.x_front, d.y_above), V(d.x_back, d.y_above))

RightLine(d) == LineSegment(V(d.x_back, d.y_above), V(d.x_back, d.y_below))

BottomLine(d) == LineSegment(V(d.x_back, d.y_below), V(d.x_front, d.y_below))

LeftLine(d) == LineSegment(V(d.x_front, d.y_below), V(d.x_front, d.y_above))

\* the constraints written after each line, on the geometry list that holds it
TopConstraints(geometry, d) ==
    << Horizontal(LlId(geometry)),
       Constraint("DistanceX", <<<<-1, 1>>, <<LlId(geometry), 1>>>>, <<d.x_front>>),
       Constraint("DistanceX", <<<<-1, 1>>, <<LlId(geometry), 2>>>>, <<d.x_back>>),
       Constraint("DistanceY", <<<<LlId(geometry), 1>>, <<-1, 1>>>>, <<d.y_above>>) >>

RightConstraints(geometry, d) ==
    << Vertical(LlId(geometry)),
       Coincident(LlId(geometry) - 1, 2, LlId(geometry), 1) >>

BottomConstraints(geometry, d) ==
    << Horizontal(LlId(geometry)),
       Constraint("DistanceY", <<<<LlId(geometry), 1>>, <<-1, 1>>>>, <<d.y_below>>),
       Coincident(LlId(geometry) - 1, 2, LlId(geometry), 1) >>

\* variant: the loop is not closed on the first line
LeftConstraintsOpen(geometry, d) ==
    << Vertical(LlId(geometry)),
       Coincident(LlId(geometry) - 1, 2, LlId(geometry), 1) >>

LeftConstraints(geometry, d) ==
    << Vertical(LlId(geometry)),
       Coincident(LlId(geometry) - 1, 2, LlId(geometry), 1),
       Coincident(LlId(geometry) - 3, 1, LlId(geometry), 2) >>

ConOps(cs) == [i \in 1..Len(cs) |-> ConOp(cs[i])]

\* one line of the domain with its constraints
DomainBlock(line, cs, l) ==
    IF SegmentRaises(line.pts[1], line.pts[2])
    THEN Raise("OCCError") /\ UNCHANGED <<Geometry, Constraints, ops>>
    ELSE Block(<<GeoOp(line)>> \o ConOps(cs), l)

DrawTop ==
    /\ pc = "top"
    /\ DomainBlock(TopLine(domain),
                   TopConstraints(Append(Geometry, TopLine(domain)), domain), "right")
    /\ UNCHANGED <<envv, fsv, ctlv, callv, localv, document, objects>>

DrawRight ==
    /\ pc = "right"
    /\ DomainBlock(RightLine(domain),
                   RightConstraints(Append(Geometry, RightLine(domain)), domain), "bottom")
    /\ UNCHANGED <<envv, fsv, ctlv, callv, localv, document, objects>>

DrawBottom ==
    /\ pc = "bottom"
    /\ DomainBlock(BottomLine(domain),
                   BottomConstraints(Append(Geometry, BottomLine(domain)), domain), "left")
    /\ UNCHANGED <<envv, fsv, ctlv, callv, localv, document, objects>>

DrawLeft ==
    /\ pc = "left"
    /\ IF SegmentRaises(LeftLine(domain).pts[1], LeftLine(domain).pts[2])
       THEN Raise("OCCError") /\ UNCHANGED <<Geometry, Constraints, ops>>
       ELSE Block(<<GeoOp(LeftLine(domain))>>
                    \o ConOps(LeftConstraints(Append(Geometry, LeftLine(domain)), domain))
                    \o <<Recompute>>, "extrude")
    /\ UNCHANGED <<envv, fsv, ctlv, callv, localv, document, objects>>

(***************************************************************************)
(* draw_from_csv_coordinates: the extrusion and the save.                  *)
(***************************************************************************)
DefaultExtrudeLength == 100

ExtrudeSuffix == <<"_", "e", "x", "t", "r", "u", "d", "e">>

\* f"{name.lower()}_extrude"
PadName(nm) == Lower(nm) \o ExtrudeSuffix

\* kwargs.get("extrude_length", 100)
ExtrudeLength(kw) == IF kw.extrude = <<>> THEN DefaultExtrudeLength ELSE kw.extrude[1]

\* a name the kernel keeps as it is requested
IsIdentifier(nm) == \A i \in 1..Len(nm) : nm[i] \notin {" ", "-", "."}

\* The pad is created under pad_name and then looked up by pad_name.  The
\* kernel may rename an object whose requested name is no identifier; the
\* lookup then returns None and setting Length raises AttributeError.
Extrude ==
    /\ pc = "extrude"
    /\ pad_name' = PadName(name)
    /\ \/ /\ objects' = Append(objects,
                          Object("PartDesign::Pad", PadName(name), <<ExtrudeLength(kwargs)>>))
          /\ ops' = ops \o <<SysOp("newObject", PadName(name)), Recompute, Recompute>>
          /\ Goto("save")
       \/ /\ ~IsIdentifier(PadName(name))
          /\ objects' = Append(objects, Object("PartDesign::Pad", PadName(name), <<>>))
          /\ ops' = Append(ops, SysOp("newObject", PadName(name)))
          /\ Raise("AttributeError")
    /\ UNCHANGED <<envv, fsv, ctlv, callv, scale_factor, body_name, number_of_coord,
                   poles, pt, domain, document, Geometry, Constraints>>

\* the document as saveAs writes it
Saved == [objects |-> objects, geometry |-> Geometry, constraints |-> Constraints]

\* document.saveAs(cwd/cad/{name}.FCStd)
SaveAs ==
    /\ pc = "save"
    /\ cad' = [s \in (DOMAIN cad) \cup {name} |-> IF s = name THEN Saved ELSE cad[s]]
    /\ ops' = Append(ops, SysOp("saveAs", name))
    /\ Goto("return")
    /\ UNCHANGED <<envv, cadDir, csv, ctlv, callv, localv, kernelv>>

(***************************************************************************)
(* The program.                                                            *)
(***************************************************************************)
Next ==
    \/ Main
    \/ ForFile
    \/ ReadFile
    \/ SaveCsvAndDraw
    \/ Caller
    \/ Return
    \/ CheckFrame
    \/ CheckColumns
    \/ AsType
    \/ ScalePrompt
    \/ MakeCadDir
    \/ NewDocument
    \/ RemoveExisting
    \/ AddBody
    \/ AddSketch
    \/ AddPoint
    \/ ConstrainX
    \/ ConstrainY
    \/ DrawBSpline
    \/ DrawClosingLine
    \/ ConstrainClosingLine
    \/ ComputeDomain
    \/ DrawTop
    \/ DrawRight
    \/ DrawBottom
    \/ DrawLeft
    \/ Extrude
    \/ SaveAs

Spec == Init /\ [][Next]_vars

(***************************************************************************)
(* Vocabulary of the properties.                                           *)
(***************************************************************************)
\* positions of draw_from_csv_coordinates
BeforeScale == {"check_frame", "check_columns", "astype", "scale"}

BeforeRemove == {"mkdir", "new_document", "remove"}

Building ==
    {"add_body", "add_sketch", "point", "dist_x", "dist_y", "bspline", "closing_line",
     "closing_constraints", "bounds", "top", "right", "bottom", "left", "extrude", "save"}

InDraw == BeforeScale \cup BeforeRemove \cup Building \cup {"return"}

\* the indices of ops that belong to the current call
CallOps == (call_start + 1)..Len(ops)

\* the run is over, normally or by an uncaught exception
Over == pc \in {"exit", "crashed"}

SavedInRun(stem) == \E k \in 1..Len(ops) : ops[k].op = "saveAs" /\ ops[k].stem = stem

\* an input file whose every data line is two numbers, with three points at
\* least, first and last point apart, and a name the kernel keeps
WellFormedLine(line) ==
    /\ Len(Split(line)) = 2
    /\ Numeric(Split(line)[1])
    /\ Numeric(Split(line)[2])

ValidFile(f) ==
    /\ EndsWith(f.file, TXT)
    /\ IsIdentifier(Stem(f.file))
    /\ f.lines # <<>>
    /\ LET data == DataLines(f.lines)
       IN  /\ Len(data) >= 3
           /\ \A i \in 1..Len(data) : WellFormedLine(data[i])
           /\ Split(data[1]) # Split(data[Len(data)])

(***************************************************************************)
(* C1.  In a batch run an error raised while one profile is ingested or    *)
(* built is caught at that profile's boundary: when the run is over, every *)
(* valid input file has its artifact saved, whatever happened to the files *)
(* listed before it.  (The driver has no handler: the first exception ends *)
(* the run, so this is violated.)                                          *)
(***************************************************************************)
C1_FailureIsContained ==
    (mode = "batch" /\ Over) =>
        \A i \in 1..Len(profiles) :
            ValidFile(profiles[i]) => SavedInRun(Stem(profiles[i].file))

(***************************************************************************)
(* C2.  Once the scaling step of a call is passed, the container holds the *)
(* points it held at the call, as floats, each multiplied by the factor    *)
(* supplied (by the scale_factor keyword or at the prompt), and unchanged  *)
(* if none was supplied.  (A factor passed by keyword is stored and never  *)
(* applied, so this is violated.)                                          *)
(***************************************************************************)
SuppliedFactor == IF IsNum(scale_factor) THEN scale_factor.v ELSE 1

C2_SuppliedScaleApplied ==
    (pc \in BeforeRemove \cup Building \cup {"return"}) =>
        /\ coordinates.x = Scaled(ColumnToFloat(coords0.x), SuppliedFactor)
        /\ coordinates.y = Scaled(ColumnToFloat(coords0.y), SuppliedFactor)

\* the name with spaces and hyphens as underscores and capitals lowered
SanitizedChar(c) == IF c \in {" ", "-"} THEN "_" ELSE LowerChar(c)

IsSanitizedOf(s, nm) ==
    /\ Len(s) = Len(nm)
    /\ \A i \in 1..Len(nm) : s[i] = SanitizedChar(nm[i])

FileOps == {"remove", "saveAs"}

SavesOfCall == {k \in CallOps : ops[k].op = "saveAs"}

C4_DeleteBeforeCreate ==
    /\ \A k, j \in CallOps :
         (ops[k].op = "remove" /\ ops[j].op = "newDocument") => k < j
    /\ pc = "return" => SavesOfCall = {Len(ops)}

(***************************************************************************)
(* C4, amended.  The existing file of the same name is removed right after *)
(* the new, still empty document is created and before a body, a sketch,   *)
(* any geometry or constraint is added to it; from then on no file of that *)
(* name exists until the single save, which is the last kernel or file     *)
(* operation of the call and comes after the curve, the domain and the     *)
(* extrusion.                                                              *)
(***************************************************************************)
BuildOps == {"addObject", "newObject", "addGeometry", "addConstraint", "saveAs"}

C4_DeleteAfterCreateSingleSave ==
    /\ \A k \in CallOps :
         ops[k].op = "remove" =>
            /\ ops[k].stem = name
            /\ k - 1 \in CallOps
            /\ ops[k - 1].op = "newDocument"
            /\ \A j \in CallOps : ops[j].op \in BuildOps => k < j
    /\ pc \in Building => name \notin DOMAIN cad
    /\ pc \in BeforeScale \cup BeforeRemove \cup Building => SavesOfCall = {}
    /\ pc = "return" =>
         /\ SavesOfCall = {Len(ops)}
         /\ cad[name] = Saved
         /\ \E b, t, p \in CallOps :
              /\ b < t /\ t < p /\ p < Len(ops)
              /\ ops[b].op = "addGeometry" /\ ops[b].geo[1].type = "BSplineCurve"
              /\ ops[t].op = "addGeometry" /\ ops[t].geo[1] = LeftLine(domain)
              /\ ops[p].op = "newObject" /\ ops[p].stem = pad_name

\* a call that removed an existing file and saved the new one
C4_Witness ==
    /\ pc = "return"
    /\ \E k \in CallOps : ops[k].op = "remove"
    /\ ops[Len(ops)].op = "saveAs"

(***************************************************************************)
(* C5.  Ingestion succeeds only if every data line of the file (the lines  *)
(* after the optional header) splits on whitespace into exactly two        *)
(* tokens; any other line is a malformed-row error and never becomes a row *)
(* of the frame.  (A shorter line is padded with None whenever some line   *)
(* has two tokens, so this is violated.)                                   *)
(***************************************************************************)
C5_MalformedRowRaises ==
    (mode = "batch" /\ pc = "to_csv") =>
        LET data == DataLines(profiles[file_idx].lines)
        IN  /\ \A i \in 1..Len(data) : Len(Split(data[i])) = 2
            /\ \A i \in 1..Len(coordinates.x) :
                 coordinates.x[i].kind = "str" /\ coordinates.y[i].kind = "str"

(***************************************************************************)
(* C6.  A call whose container holds fewer than three points adds no       *)
(* geometry and saves no file.  (The builder never tests the number of     *)
(* points: one point is added to the sketch before the curve fails, and    *)
(* two points are built and saved, so this is violated.)                   *)
(***************************************************************************)
C6_DegenerateProfileRejected ==
    (coords0.isFrame /\ Len(coords0.x) < 3) =>
        \A k \in CallOps : ops[k].op \notin {"addGeometry", "saveAs"}

(***************************************************************************)
(* C7.  Once the domain is computed, its extents are those of the bounding *)
(* box of the points of the sketch (the profile after scaling), moved out  *)
(* by 3, 7, 3 and 3 times length = max_x - min_x; the four domain lines    *)
(* lie on these extents; and a profile scaled by s at the prompt has every *)
(* margin s times the margin of the profile as passed (s = 2 doubles the   *)
(* length and every margin).                                               *)
(***************************************************************************)
AfterBounds == {"top", "right", "bottom", "left", "extrude", "save", "return"}

\* the point entities of the sketch, in order
SketchPoints == SelectSeq(Geometry, LAMBDA g : g.type = "Point")

PointXs == {SketchPoints[i].pts[1][1].v : i \in 1..Len(SketchPoints)}

PointYs == {SketchPoints[i].pts[1][2].v : i \in 1..Len(SketchPoints)}

IsMin(m, S) == m \in S /\ \A n \in S : m <= n

IsMax(m, S) == m \in S /\ \A n \in S : m >= n

\* the margins of a domain d around the box [lx, hx] x [ly, hy]
Margins(d, lx, hx, ly, hy) == <<lx - d.x_front, d.x_back - hx, d.y_above - hy, ly - d.y_below>>

\* the bounding box of the profile as passed to the call
Xs0 == {ToFloat(coords0.x[i]).v : i \in 1..Len(coords0.x)}

Ys0 == {ToFloat(coords0.y[i]).v : i \in 1..Len(coords0.y)}

C7_DomainFromScaledBox ==
    pc \in AfterBounds =>
        \E lx, hx \in PointXs : \E ly, hy \in PointYs :
            /\ IsMin(lx, PointXs) /\ IsMax(hx, PointXs)
            /\ IsMin(ly, PointYs) /\ IsMax(hy, PointYs)
            /\ LET length == hx - lx
               IN  /\ domain.x_front = lx - 3 * length
                   /\ domain.x_back = hx + 7 * length
                   /\ domain.y_above = hy + 3 * length
                   /\ domain.y_below = ly - 3 * length
            /\ \A s \in 1..MaxScale :
                 (coordinates.x = Scaled(ColumnToFloat(coords0.x), s)
                    /\ coordinates.y = Scaled(ColumnToFloat(coords0.y), s)) =>
                     \E lx0, hx0 \in Xs0 : \E ly0, hy0 \in Ys0 :
                         /\ IsMin(lx0, Xs0) /\ IsMax(hx0, Xs0)
                         /\ IsMin(ly0, Ys0) /\ IsMax(hy0, Ys0)
                         /\ hx - lx = s * (hx0 - lx0)
                         /\ Margins(domain, lx, hx, ly, hy) =
                              << s * 3 * (hx0 - lx0), s * 7 * (hx0 - lx0),
                                 s * 3 * (hx0 - lx0), s * 3 * (hx0 - lx0) >>
            /\ pc \in {"extrude", "save", "return"} =>
                 LET n == Len(Geometry)
                 IN  /\ Geometry[n - 3].pts = <<V(domain.x_front, domain.y_above),
                                                V(domain.x_back, domain.y_above)>>
                     /\ Geometry[n - 2].pts = <<V(domain.x_back, domain.y_above),
                                                V(domain.x_back, domain.y_below)>>
                     /\ Geometry[n - 1].pts = <<V(domain.x_back, domain.y_below),
                                                V(domain.x_front, domain.y_below)>>
                     /\ Geometry[n].pts = <<V(domain.x_front, domain.y_below),
                                            V(domain.x_front, domain.y_above)>>

\* a profile doubled at the prompt, with a point below the axis, has its domain
C7_Witness ==
    /\ pc = "extrude"
    /\ scale_factor = Flt(2)
    /\ ~kwargs.has_scale
    /\ coordinates.x # ColumnToFloat(coords0.x)
    /\ \E i \in 1..Len(poles) : poles[i][2].v < 0
    /\ domain.x_back - domain.x_front > 0

(***************************************************************************)
(* Reading the requests of the current call.                               *)
(***************************************************************************)
\* the positions in ops of the addGeometry requests of the call, in order:
\* the request at GeoAt[i] created the geometry with id i - 1
GeoAt ==
    SelectSeq([k \in 1..Len(ops) |-> k],
              LAMBDA k : k > call_start /\ ops[k].op = "addGeometry")

IsConstraintOp(k, kind) == ops[k].op = "addConstraint" /\ ops[k].con[1].kind = kind

\* the request at k is a Coincident constraint joining exactly p and q
Joins(k, p, q) ==
    /\ IsConstraintOp(k, "Coincident")
    /\ Len(ops[k].con[1].refs) = 2
    /\ {ops[k].con[1].refs[1], ops[k].con[1].refs[2]} = {p, q}

DomainBuilt == pc \in {"extrude", "save", "return"}

(***************************************************************************)
(* C8.  When the domain is built, the last four geometries of the sketch   *)
(* are line segments added in the order top, right, bottom, left, and      *)
(* nothing else was added after the closing line.  The request right after *)
(* each line is its orientation constraint (Horizontal for top and bottom, *)
(* Vertical for right and left), so it precedes the next line.  Between    *)
(* the addition of each of lines 2-4 and the next line there is a          *)
(* Coincident constraint joining its start (position 1) to the end         *)
(* (position 2) of the line before it, and after line 4 a Coincident       *)
(* constraint joining its end to the start of line 1.  Each line starts    *)
(* where the line before it ends and line 4 ends where line 1 starts.      *)
(***************************************************************************)
C8_DomainLoop ==
    DomainBuilt =>
        LET n == Len(Geometry)
            seg(k) == Geometry[n - 4 + k]
            id(k) == n - 5 + k
            at(k) == GeoAt[n - 4 + k]
            until(k) == IF k < 4 THEN GeoAt[n - 3 + k] ELSE Len(ops) + 1
            ys == {poles[i][2].v : i \in 1..Len(poles)}
            xs == {poles[i][1].v : i \in 1..Len(poles)}
        IN  /\ n = Len(poles) + 6
            /\ Len(GeoAt) = n
            /\ \A k \in 1..4 : seg(k).type = "LineSegment" /\ ops[at(k)].geo[1] = seg(k)
            /\ at(1) < at(2) /\ at(2) < at(3) /\ at(3) < at(4)
            \* top, right, bottom, left of the profile
            /\ seg(1).pts[1][2] = seg(1).pts[2][2] /\ \A y \in ys : y < seg(1).pts[1][2].v
            /\ seg(2).pts[1][1] = seg(2).pts[2][1] /\ \A x \in xs : x < seg(2).pts[1][1].v
            /\ seg(3).pts[1][2] = seg(3).pts[2][2] /\ \A y \in ys : y > seg(3).pts[1][2].v
            /\ seg(4).pts[1][1] = seg(4).pts[2][1] /\ \A x \in xs : x > seg(4).pts[1][1].v
            \* the orientation constraint follows the line at once
            /\ \A k \in {1, 3} :
                 /\ IsConstraintOp(at(k) + 1, "Horizontal")
                 /\ ops[at(k) + 1].con[1].refs = <<<<id(k), 0>>>>
            /\ \A k \in {2, 4} :
                 /\ IsConstraintOp(at(k) + 1, "Vertical")
                 /\ ops[at(k) + 1].con[1].refs = <<<<id(k), 0>>>>
            /\ \A k \in 1..4 : at(k) + 1 < until(k)
            \* start of each later line on the end of the line before it
            /\ \A k \in 2..4 :
                 \E j \in (at(k) + 1)..(until(k) - 1) : Joins(j, <<id(k), 1>>, <<id(k - 1), 2>>)
            \* end of the fourth line on the start of the first
            /\ \E j \in (at(4) + 1)..(until(4) - 1) : Joins(j, <<id(4), 2>>, <<id(1), 1>>)
            \* every accepted request is a constraint of the sketch
            /\ \A k \in 1..4 : \A j \in (at(k) + 1)..(until(k) - 1) :
                 ops[j].op = "addConstraint" =>
                    \E c \in 1..Len(Constraints) : Constraints[c] = ops[j].con[1]
            \* the loop is closed
            /\ \A k \in 1..3 : seg(k).pts[2] = seg(k + 1).pts[1]
            /\ seg(4).pts[2] = seg(1).pts[1]

\* the domain of a profile of four points is built
C8_Witness ==
    /\ pc = "extrude"
    /\ Len(poles) = 4
    /\ Len(Geometry) = 10
    /\ Geometry[10].type = "LineSegment"

(***************************************************************************)
(* C9.  Every constraint requested in a call names, besides the reserved   *)
(* ids -1 and -2, only ids of geometries added to the sketch before the    *)
(* request, and names the intended ones.  With N the number of points      *)
(* added so far: a constraint requested while the last geometry is a point *)
(* is the DistanceX or DistanceY of that point, with that point's          *)
(* coordinate; the constraints requested while the last geometry is the    *)
(* closing line (id N + 1) join its start to point 0 and its end to point  *)
(* N - 1; the constraints requested later name domain segments (ids above  *)
(* N + 1) only.                                                            *)
(***************************************************************************)
Reserved == {-1, -2}

\* the geometry requests of the call made before request k
GeoBefore(k) == {j \in CallOps : j < k /\ ops[j].op = "addGeometry"}

PointsBefore(k) == {j \in GeoBefore(k) : ops[j].geo[1].type = "Point"}

LastGeoBefore(k) == ops[CHOOSE j \in GeoBefore(k) : \A i \in GeoBefore(k) : i <= j].geo[1]

\* the geometry with id g, among those requested before k
GeoWithId(k, g) == ops[CHOOSE j \in GeoBefore(k) : Cardinality(GeoBefore(j)) = g].geo[1]

Named(c) == {c.refs[i] : i \in 1..Len(c.refs)}

NamedIds(c) == {r[1] : r \in Named(c)} \ Reserved

C9_ConstraintsNameExistingGeometry ==
    \A k \in CallOps :
        ops[k].op = "addConstraint" =>
            LET c == ops[k].con[1]
                count == Cardinality(GeoBefore(k))
                N == Cardinality(PointsBefore(k))
                last == LastGeoBefore(k)
            IN  /\ \A g \in NamedIds(c) : 0 <= g /\ g < count
                /\ count > 0
                /\ count <= N =>
                     /\ last.type = "Point"
                     /\ \/ /\ c.kind = "DistanceX"
                           /\ c.refs = <<<<-2, 1>>, <<count - 1, 1>>>>
                           /\ c.val = <<last.pts[1][1].v>>
                        \/ /\ c.kind = "DistanceY"
                           /\ c.refs = <<<<count - 1, 1>>, <<-1, 1>>>>
                           /\ c.val = <<last.pts[1][2].v>>
                /\ count = N + 1 => FALSE
                /\ count = N + 2 =>
                     /\ last.type = "LineSegment"
                     /\ GeoWithId(k, N).type = "BSplineCurve"
                     /\ GeoWithId(k, 0).type = "Point"
                     /\ GeoWithId(k, N - 1).type = "Point"
                     /\ \/ c.refs = <<<<N + 1, 1>>, <<0, 1>>>>
                        \/ c.refs = <<<<N + 1, 2>>, <<N - 1, 1>>>>
                /\ count > N + 2 =>
                     /\ last.type = "LineSegment"
                     /\ \A g \in NamedIds(c) : g > N + 1 /\ GeoWithId(k, g).type = "LineSegment"

\* all the constraints of a profile of three points and of its domain were requested
C9_Witness ==
    /\ pc = "save"
    /\ Len(poles) = 3
    /\ Cardinality({k \in CallOps : ops[k].op = "addConstraint"}) = 20
    /\ Len(Constraints) = 20

(***************************************************************************)
(* C10.  Once the closing line is constrained, the sketch holds exactly    *)
(* one smooth curve, whose poles are the rows of the container in order,   *)
(* and, up to the closing line, exactly one line segment, running from the *)
(* curve's first pole to its last; and exactly two Coincident constraints  *)
(* name that segment: one joins its start to the point entity lying on the *)
(* curve's first pole, the other its end to the point entity lying on the  *)
(* curve's last pole.                                                      *)
(***************************************************************************)
CurveClosed ==
    pc \in {"bounds", "top", "right", "bottom", "left", "extrude", "save", "return"}

\* the indices of Geometry holding a geometry of the type
OfType(t) == {i \in 1..Len(Geometry) : Geometry[i].type = t}

\* the indices of the Coincident constraints that name geometry id g
CoincidentOn(g) ==
    {i \in 1..Len(Constraints) :
        Constraints[i].kind = "Coincident" /\ g \in NamedIds(Constraints[i])}

SavesBeforeCall == {k \in 1..call_start : ops[k].op = "saveAs"}

\* Len(ops) when the call before the current one began
PrevStart ==
    LET earlier == {k \in SavesBeforeCall : k < call_start}
    IN  IF earlier = {} THEN 0 ELSE CHOOSE k \in earlier : \A j \in earlier : j <= k

\* the requests with an op of kinds among ops[from + 1 .. to], in order
OpsBetween(from, to, kinds) ==
    SelectSeq(SubSeq(ops, from + 1, to), LAMBDA o : o.op \in kinds)

SketchOps == {"addObject", "newObject", "addGeometry", "addConstraint"}

\* the current call is a second call in a row with the same name and
\* container, it returned, and the user answered the prompts as before
RepeatedCall ==
    /\ mode = "direct"
    /\ calls >= 2
    /\ pc = "return"
    /\ call_start \in SavesBeforeCall
    /\ OpsBetween(PrevStart, call_start, {"input"}) =
         OpsBetween(call_start, Len(ops), {"input"})

(***************************************************************************)
(* C11.  A second call in a row with the same name, the same container and *)
(* the same answers at the prompt builds the same objects, geometry and    *)
(* constraints as the first and leaves the same saved file.  (The first    *)
(* call scales the caller's container in place, so a second call that      *)
(* scales again builds a profile scaled twice: this is violated.)          *)
(***************************************************************************)
C11_SecondRunSameArtifact ==
    RepeatedCall =>
        OpsBetween(PrevStart, call_start, SketchOps) =
            OpsBetween(call_start, Len(ops), SketchOps)

(***************************************************************************)
(* C12.  A container that fails validation (no DataFrame, a missing x or y *)
(* column, a value that is no number) ends the call with its exception     *)
(* before anything is requested from the console, the file system or the   *)
(* kernel: no folder or document is created and a file that existed under  *)
(* the name is still there, untouched.  From the step that removes the     *)
(* existing file until the final saveAs no file exists under the name, so  *)
(* a call that fails after that step leaves no file under the name, even   *)
(* if one existed before the call.                                         *)
(***************************************************************************)
\* the container as passed does not pass lines 61-77
FailsValidation(df) ==
    \/ ~df.isFrame
    \/ ~({"x", "y"} \subseteq df.cols)
    \/ ~df.xfloat /\ ~ColumnCoercible(df.x)
    \/ ~df.yfloat /\ ~ColumnCoercible(df.y)

\* the builder has been called
Called == IF mode = "batch" THEN name # <<>> ELSE calls > 0

\* cwd/cad and its files were there before the program started
CadFromBefore == cadDir /\ \A k \in 1..Len(ops) : ops[k].op # "mkdir"

\* the call got past the removal of the existing file and has not saved
PastRemoval ==
    /\ \E k \in CallOps : ops[k].op = "addObject"
    /\ \A k \in CallOps : ops[k].op # "saveAs"

C12_ValidationFirstThenNoFileUntilSave ==
    /\ (pc \in InDraw \cup {"crashed"} /\ Called /\ FailsValidation(coords0)) =>
         /\ pc \in {"check_frame", "check_columns", "astype", "crashed"}
         /\ pc = "crashed" => err \in {"TypeError", "ValueError"}
         /\ CallOps = {}
         /\ CadFromBefore => (name \in DOMAIN cad /\ cad[name] = OldDocument)
    /\ pc \in Building => name \notin DOMAIN cad
    /\ (pc = "crashed" /\ PastRemoval) => name \notin DOMAIN cad
    /\ (pc \in InDraw \cup {"crashed"} /\ Called /\ name \in DOMAIN cad /\ cad[name] # OldDocument) =>
         \E k \in 1..Len(ops) : ops[k].op = "saveAs" /\ ops[k].stem = name

\* a call that removed the existing file failed later and left none
C12_Witness ==
    /\ pc = "crashed"
    /\ CadFromBefore
    /\ PastRemoval
    /\ \E k \in CallOps : ops[k].op = "remove" /\ ops[k].stem = name
    /\ name \notin DOMAIN cad
    /\ ~FailsValidation(coords0)

====
